---- MODULE Spec2Model ----
(***************************************************************************)
(* Model of src/script.js: the Planet class (rotation, position) and the   *)
(* SolarSystem controller (start / pause / reset, speed slider handling    *)
(* and the requestAnimationFrame loop).                                    *)
(*                                                                         *)
(* Units.  Timestamps are integers in milliseconds.  Speeds are integers   *)
(* in tenths (SpeedScale), the resolution the slider read-out shows.       *)
(* Orbital periods are integers in tenths.  Angles are integers in         *)
(* 1/10000 degree, so that (360 / orbitalPeriod) * (elapsed / 1000) *      *)
(* speedFactor is DegPerSec * elapsed * speedFactor with no rounding for   *)
(* the bodies of the modelled page (mercury, earth and an unlisted name).  *)
(*                                                                         *)
(* A JavaScript value is a record [k, v]: k = "fin" (finite number v),     *)
(* "nan", "inf" (v = 1 for +Infinity, -1 for -Infinity) or "undef".        *)
(***************************************************************************)
EXTENDS Integers, Sequences, FiniteSets, TLC

VARIABLES
    planets,        \* SolarSystem.planets: sequence of Planet records
    isAnimating,    \* SolarSystem.isAnimating
    speedFactor,    \* SolarSystem.speedFactor (JS number, tenths)
    lastTimestamp,  \* SolarSystem.lastTimestamp (JS number or undefined)
    animationId,    \* SolarSystem.animationId: handle of the last request
    pending,        \* callbacks registered with requestAnimationFrame, not yet run
    startActive,    \* startBtn.classList contains 'active'
    pauseActive,    \* pauseBtn.classList contains 'active'
    speedText,      \* speedValue.textContent
    sliderMin,      \* speedSlider.min (attribute text)
    sliderMax,      \* speedSlider.max (attribute text)
    now,            \* host clock, performance.now(), ms
    lastOp,         \* history: the operation that made the last step
    lastRaw,        \* history: slider text read by the last step, if any
    lastFrame,      \* history: timestamp of the most recent animate call
    prevRot,        \* history: every planet's rotation before the last step
    repeated,       \* history: the last step repeated the start or pause before it
    call            \* a single operation applied to chosen arguments, and its result

prog == <<planets, isAnimating, speedFactor, lastTimestamp, animationId, pending,
          startActive, pauseActive, speedText>>
host == <<sliderMin, sliderMax, now>>
hist == <<lastOp, lastRaw, lastFrame, prevRot, repeated>>
vars == <<prog, host, hist, call>>

----------------------------------------------------------------------------
(* Bounds of the model *)

QuantumMs == 500      \* host clock granularity, ms
MaxQuanta == 4        \* the clock stops after this many quanta
MaxFrames == 4        \* frame callbacks the host runs

----------------------------------------------------------------------------
(* JavaScript values *)

SpeedScale == 10
MsPerSec == 1000
FullCircle == 360

Fin(n) == [k |-> "fin", v |-> n]
NaN == [k |-> "nan", v |-> 0]
Inf(s) == [k |-> "inf", v |-> s]
Undefined == [k |-> "undef", v |-> 0]

Sign(n) == IF n > 0 THEN 1 ELSE IF n < 0 THEN -1 ELSE 0

\* typeof x === 'number'
IsNumber(x) == x.k \in {"fin", "nan", "inf"}

\* isNaN(x)
isNaN(x) == x.k \in {"nan", "undef"}

\* ToBoolean(x): undefined, NaN and 0 are falsy
Truthy(x) == ~(x.k \in {"undef", "nan"} \/ (x.k = "fin" /\ x.v = 0))

\* a || b
OrElse(a, b) == IF Truthy(a) THEN a ELSE b

\* a < b on numbers that are not NaN
NumLess(a, b) ==
    IF a.k = "fin" /\ b.k = "fin" THEN a.v < b.v
    ELSE IF a.k = "inf" /\ b.k = "inf" THEN a.v < b.v
    ELSE IF a.k = "inf" THEN a.v < 0
    ELSE b.v > 0

\* Math.max(a, b)
MathMax(a, b) ==
    IF isNaN(a) \/ isNaN(b) THEN NaN
    ELSE IF NumLess(a, b) THEN b ELSE a

\* Math.min(a, b)
MathMin(a, b) ==
    IF isNaN(a) \/ isNaN(b) THEN NaN
    ELSE IF NumLess(b, a) THEN b ELSE a

\* a + b
NumAdd(a, b) ==
    IF isNaN(a) \/ isNaN(b) THEN NaN
    ELSE IF a.k = "fin" /\ b.k = "fin" THEN Fin(a.v + b.v)
    ELSE IF a.k = "inf" /\ b.k = "inf" THEN (IF a.v = b.v THEN a ELSE NaN)
    ELSE IF a.k = "inf" THEN a ELSE b

\* -a
NumNeg(a) ==
    IF isNaN(a) THEN NaN
    ELSE IF a.k = "fin" THEN Fin(0 - a.v) ELSE Inf(0 - a.v)

\* a - b
NumSub(a, b) == NumAdd(a, NumNeg(b))

\* a * b
NumMul(a, b) ==
    IF isNaN(a) \/ isNaN(b) THEN NaN
    ELSE IF a.k = "fin" /\ b.k = "fin" THEN Fin(a.v * b.v)
    ELSE IF Sign(a.v) * Sign(b.v) = 0 THEN NaN
    ELSE Inf(Sign(a.v) * Sign(b.v))

----------------------------------------------------------------------------
(* Text of the slider: parseFloat and toFixed *)

Digits == <<"0", "1", "2", "3", "4", "5", "6", "7", "8", "9">>
InfinityText == <<"I", "n", "f", "i", "n", "i", "t", "y">>

IsDigit(c) == \E i \in 1..10 : Digits[i] = c
DigitVal(c) == (CHOOSE i \in 1..10 : Digits[i] = c) - 1

RECURSIVE SkipSpace(_)
SkipSpace(s) == IF s # <<>> /\ Head(s) = " " THEN SkipSpace(Tail(s)) ELSE s

\* number of leading digits of s
RECURSIVE DigitRun(_)
DigitRun(s) == IF s # <<>> /\ IsDigit(Head(s)) THEN 1 + DigitRun(Tail(s)) ELSE 0

\* value of the digit string s, read left to right from acc
RECURSIVE DigitsVal(_, _)
DigitsVal(s, acc) ==
    IF s = <<>> THEN acc ELSE DigitsVal(Tail(s), acc * 10 + DigitVal(Head(s)))

HasPrefix(s, p) == Len(s) >= Len(p) /\ SubSeq(s, 1, Len(p)) = p

\* parseFloat(text), in tenths: leading blanks, a sign, then Infinity or the longest
\* decimal prefix; NaN when there is none.  Fraction digits after the first are
\* below the resolution of the model (no slider text of the model has any).
parseFloat(text) ==
    LET s1 == SkipSpace(text)
        neg == s1 # <<>> /\ Head(s1) = "-"
        signed == s1 # <<>> /\ Head(s1) \in {"-", "+"}
        s2 == IF signed THEN Tail(s1) ELSE s1
        sgn == IF neg THEN -1 ELSE 1
        ni == DigitRun(s2)
        s3 == SubSeq(s2, ni + 1, Len(s2))
        dot == s3 # <<>> /\ Head(s3) = "."
        s4 == IF dot THEN Tail(s3) ELSE <<>>
        nf == DigitRun(s4)
        ip == DigitsVal(SubSeq(s2, 1, ni), 0)
        fp == IF nf > 0 THEN DigitVal(s4[1]) ELSE 0
    IN  IF HasPrefix(s2, InfinityText) THEN Inf(sgn)
        ELSE IF ni + nf = 0 THEN NaN
        ELSE Fin(sgn * (ip * SpeedScale + fp))

\* decimal digits of the natural number n
RECURSIVE NatText(_)
NatText(n) ==
    IF n < 10 THEN <<Digits[n + 1]>> ELSE NatText(n \div 10) \o <<Digits[(n % 10) + 1]>>

\* x.toFixed(1) of a number held in tenths
toFixed1(x) ==
    IF x.k = "nan" THEN <<"N", "a", "N">>
    ELSE IF x.k = "inf" THEN (IF x.v < 0 THEN <<"-">> ELSE <<>>) \o InfinityText
    ELSE LET a == IF x.v < 0 THEN 0 - x.v ELSE x.v
         IN  (IF x.v < 0 THEN <<"-">> ELSE <<>>)
             \o NatText(a \div SpeedScale) \o <<".">> \o NatText(a % SpeedScale)

----------------------------------------------------------------------------
(* Planet *)

PlanetNames ==
    {"mercury", "venus", "earth", "mars", "jupiter", "saturn", "uranus", "neptune"}

\* PLANET_DATA[name].orbitalPeriod, in tenths
PLANET_DATA ==
    [n \in PlanetNames |->
        CASE n = "mercury" -> 24
          [] n = "venus" -> 62
          [] n = "earth" -> 100
          [] n = "mars" -> 188
          [] n = "jupiter" -> 1180
          [] n = "saturn" -> 2950
          [] n = "uranus" -> 8400
          [] n = "neptune" -> 16500]

DefaultPeriod == 100

\* The .planet elements of the page: class list and the offsetWidth of the parent
\* orbit element.  "pluto" has no entry in PLANET_DATA.
PlanetElements ==
    << [classList |-> <<"planet", "mercury">>, offsetWidth |-> 240],
       [classList |-> <<"planet", "earth">>, offsetWidth |-> 460],
       [classList |-> <<"pluto", "planet">>, offsetWidth |-> 600] >>

\* new Planet(name, element)
Planet(name, element) ==
    [name |-> name,
     orbitalPeriod |-> IF name \in PlanetNames THEN PLANET_DATA[name] ELSE DefaultPeriod,
     rotation |-> Fin(0),
     initialRotation |-> Fin(0),
     offsetWidth |-> element.offsetWidth,
     style |-> Undefined]

\* the rate of the default period for every body
DegPerSec_default(p) == (FullCircle * SpeedScale) \div DefaultPeriod

\* 360 / orbitalPeriod, degrees per second (whole for the modelled bodies)
DegPerSec(p) == (FullCircle * SpeedScale) \div p.orbitalPeriod

\* angles in 1/10000 degree: a full turn and the quarter turn the position starts from
FullTurn == FullCircle * SpeedScale * MsPerSec
QuarterTurn == FullTurn \div 4

\* Math.cos and Math.sin of an angle of a degrees - 90 degrees (the adjustedRadians of
\* updatePosition), a in 1/10000 degree: the exact value at whole quarter turns, the
\* unevaluated term (function and angle reduced to one turn) elsewhere
trig(fn, a) ==
    LET r == (a + 3 * QuarterTurn) % FullTurn
        q == r \div QuarterTurn
    IN  IF r % QuarterTurn # 0 THEN [exact |-> FALSE, v |-> 0, fn |-> fn, deg |-> r]
        ELSE [exact |-> TRUE,
              v |-> IF fn = "cos" THEN (CASE q = 0 -> 1 [] q = 1 -> 0 [] q = 2 -> -1 [] q = 3 -> 0)
                    ELSE (CASE q = 0 -> 0 [] q = 1 -> 1 [] q = 2 -> 0 [] q = 3 -> -1),
              fn |-> fn, deg |-> r]

\* orbitRadius + orbitRadius * t in half pixels, orbitRadius = offsetWidth / 2
coordinate(offsetWidth, t) ==
    IF t.exact THEN [k |-> "px", v |-> offsetWidth + offsetWidth * t.v, fn |-> t.fn, deg |-> 0]
    ELSE [k |-> "term", v |-> offsetWidth, fn |-> t.fn, deg |-> t.deg]

\* the position without the quarter turn that puts rotation 0 at the top
positionOnOrbit_fromRight(a, offsetWidth) ==
    [k |-> "pos",
     left |-> coordinate(offsetWidth, trig("cos", a + QuarterTurn)),
     top |-> coordinate(offsetWidth, trig("sin", a + QuarterTurn))]

\* the left/top of a planet at rotation a on an orbit element of the given width
positionOnOrbit(a, offsetWidth) ==
    [k |-> "pos",
     left |-> coordinate(offsetWidth, trig("cos", a)),
     top |-> coordinate(offsetWidth, trig("sin", a))]

\* Planet.updatePosition: left/top follow the rotation; a NaN or infinite
\* coordinate is no CSS length and leaves the style as it was.
updatePosition(p) ==
    IF p.rotation.k = "fin"
    THEN [p EXCEPT !.style = positionOnOrbit(p.rotation.v, p.offsetWidth)]
    ELSE p

\* updateRotation without the speed factor
updateRotation_noSpeed(p, elapsedTime, sf) ==
    IF ~IsNumber(elapsedTime) \/ ~IsNumber(sf) THEN p
    ELSE [p EXCEPT !.rotation =
            NumAdd(p.rotation, NumMul(Fin(DegPerSec(p)), NumMul(elapsedTime, Fin(SpeedScale))))]

\* Planet.updateRotation(elapsedTime, speedFactor)
updateRotation(p, elapsedTime, sf) ==
    IF ~IsNumber(elapsedTime) \/ ~IsNumber(sf) THEN p
    ELSE LET speed == NumMul(NumMul(Fin(DegPerSec(p)), elapsedTime), sf)
         IN  [p EXCEPT !.rotation = NumAdd(p.rotation, speed)]

\* reset that leaves the rotation as it is
resetPlanet_keep(p) == p

\* Planet.reset
resetPlanet(p) == [p EXCEPT !.rotation = p.initialRotation]

----------------------------------------------------------------------------
(* SolarSystem *)

\* the first class of the element other than 'planet'
planetName(element) ==
    LET others == SelectSeq(element.classList, LAMBDA c : c # "planet")
    IN  IF others = <<>> THEN "" ELSE others[1]

\* new Planet(name, element) throws for a missing name
PlanetThrows(name, element) == name = ""

\* initializePlanets giving up at the first element it cannot name
RECURSIVE initializePlanets_untilUnnamed(_)
initializePlanets_untilUnnamed(elements) ==
    IF elements = <<>> THEN <<>>
    ELSE LET e == Head(elements)
         IN  IF planetName(e) # "" /\ ~PlanetThrows(planetName(e), e)
             THEN <<Planet(planetName(e), e)>> \o initializePlanets_untilUnnamed(Tail(elements))
             ELSE <<>>

\* SolarSystem.initializePlanets: one Planet per named .planet element, in the
\* order of querySelectorAll; an element without a name and a Planet whose
\* constructor throws are passed over
RECURSIVE initializePlanets(_)
initializePlanets(elements) ==
    IF elements = <<>> THEN <<>>
    ELSE LET e == Head(elements)
             rest == initializePlanets(Tail(elements))
         IN  IF planetName(e) # "" /\ ~PlanetThrows(planetName(e), e)
             THEN <<Planet(planetName(e), e)>> \o rest
             ELSE rest

\* SolarSystem.updatePlanetPositions
updatePlanetPositions(ps) == [i \in DOMAIN ps |-> updatePosition(ps[i])]

\* speedSlider.min and speedSlider.max as the page may set them (empty: not set)
SliderRanges ==
    { [min |-> <<>>, max |-> <<>>],
      [min |-> <<"0", ".", "5">>, max |-> <<"3">>] }

\* speedSlider.value as the host may hand it over
RawValues ==
    { <<"a", "b", "c">>, <<>>, <<"N", "a", "N">>,
      InfinityText, <<"-">> \o InfinityText,
      <<"1", "0", "0">>, <<"-", "3">>, <<"2">> }

DefaultMin == 1
DefaultMax == 50

\* handleSpeedChange without the upper bound
clampedSpeed_noMax(raw) ==
    LET value == parseFloat(raw)
        minValue == OrElse(parseFloat(sliderMin), Fin(DefaultMin))
    IN  IF isNaN(value) THEN speedFactor ELSE MathMax(value, minValue)

\* the value handleSpeedChange stores for the slider text raw; the previous
\* speedFactor when the text is rejected
clampedSpeed(raw) ==
    LET value == parseFloat(raw)
        minValue == OrElse(parseFloat(sliderMin), Fin(DefaultMin))
        maxValue == OrElse(parseFloat(sliderMax), Fin(DefaultMax))
    IN  IF isNaN(value) THEN speedFactor
        ELSE MathMin(MathMax(value, minValue), maxValue)

\* the text handleSpeedChange shows for the slider text raw
shownSpeed(raw) ==
    IF isNaN(parseFloat(raw)) THEN speedText
    ELSE toFixed1(clampedSpeed(raw)) \o <<"x">>

\* every planet's rotation
Rotations == [i \in DOMAIN planets |-> planets[i].rotation]

\* the history of a step made by operation op, which read the slider text raw
\* (empty when it read none)
Record(op, raw) ==
    /\ lastOp' = op
    /\ lastRaw' = raw
    /\ prevRot' = Rotations
    /\ repeated' = (op \in {"start", "pause"} /\ lastOp = op)

\* both buttons marked by the same flag
updateButtonStates_same(running) ==
    /\ startActive' = running
    /\ pauseActive' = running

\* SolarSystem.updateButtonStates with isAnimating = running
updateButtonStates(running) ==
    /\ startActive' = running
    /\ pauseActive' = ~running

\* start as a play/pause toggle
start_toggle ==
    /\ isAnimating' = ~isAnimating
    /\ updateButtonStates(~isAnimating)
    /\ UNCHANGED <<planets, speedFactor, lastTimestamp, animationId, pending, speedText>>

\* SolarSystem.start
start ==
    /\ isAnimating' = TRUE
    /\ updateButtonStates(TRUE)
    /\ UNCHANGED <<planets, speedFactor, lastTimestamp, animationId, pending, speedText>>

\* pause as a play/pause toggle
pause_toggle ==
    /\ isAnimating' = ~isAnimating
    /\ updateButtonStates(~isAnimating)
    /\ UNCHANGED <<planets, speedFactor, lastTimestamp, animationId, pending, speedText>>

\* SolarSystem.pause
pause ==
    /\ isAnimating' = FALSE
    /\ updateButtonStates(FALSE)
    /\ UNCHANGED <<planets, speedFactor, lastTimestamp, animationId, pending, speedText>>

\* reset that does not publish the positions
reset_noPublish ==
    /\ isAnimating' = FALSE
    /\ planets' = [i \in DOMAIN planets |-> resetPlanet(planets[i])]
    /\ updateButtonStates(FALSE)
    /\ UNCHANGED <<speedFactor, lastTimestamp, animationId, pending, speedText>>

\* SolarSystem.reset: pause, every planet back to its initial rotation, positions
\* published, button states
reset ==
    /\ isAnimating' = FALSE
    /\ planets' = updatePlanetPositions([i \in DOMAIN planets |-> resetPlanet(planets[i])])
    /\ updateButtonStates(FALSE)
    /\ UNCHANGED <<speedFactor, lastTimestamp, animationId, pending, speedText>>

\* SolarSystem.handleSpeedChange with speedSlider.value = raw
handleSpeedChange(raw) ==
    /\ speedFactor' = clampedSpeed(raw)
    /\ speedText' = shownSpeed(raw)
    /\ UNCHANGED <<planets, isAnimating, lastTimestamp, animationId, pending,
                   startActive, pauseActive>>

\* the timestamp animate works with: performance.now() for a falsy argument
frameTime(timestamp) == IF Truthy(timestamp) THEN timestamp ELSE Fin(now)

\* elapsed time with the operands of the subtraction swapped
elapsedSince_reversed(t) == NumSub(OrElse(lastTimestamp, t), t)

\* elapsed time since the stored timestamp, for a frame at time t
elapsedSince(t) == NumSub(t, OrElse(lastTimestamp, t))

\* lastTimestamp after animate has run with time t
storedTimestamp(t) == IF isAnimating THEN t ELSE lastTimestamp

\* animate advancing the planets in either play state
animatedPlanets_whenPaused(t) ==
    updatePlanetPositions(
        [i \in DOMAIN planets |->
            updateRotation(planets[i], elapsedSince(t), speedFactor)])

\* the planets after animate has run with time t
animatedPlanets(t) ==
    IF isAnimating
    THEN updatePlanetPositions(
            [i \in DOMAIN planets |->
                updateRotation(planets[i], elapsedSince(t), speedFactor)])
    ELSE planets

\* animate asking for the next frame only while animating
requested_whenRunning == IF isAnimating THEN 1 ELSE 0

\* callbacks animate registers with requestAnimationFrame
requested == 1

\* SolarSystem.animate(timestamp), run from `ran` callbacks of the host
\* (0 for the call of startAnimationLoop)
animate(timestamp, ran) ==
    LET t == frameTime(timestamp)
    IN  /\ lastTimestamp' = storedTimestamp(t)
        /\ planets' = animatedPlanets(t)
        /\ animationId' = animationId + requested
        /\ pending' = pending - ran + requested
        /\ lastFrame' = t
        /\ UNCHANGED <<isAnimating, speedFactor, startActive, pauseActive, speedText>>

----------------------------------------------------------------------------
(* The session: the state after new SolarSystem(), then user and host events *)

\* no operation is applied on its own during a session
NoCall == [fn |-> "none", done |-> TRUE]

\* the controller and the page right after new SolarSystem()
Constructed ==
    /\ planets = initializePlanets(PlanetElements)
    /\ isAnimating = FALSE
    /\ speedFactor = Fin(SpeedScale)
    /\ lastTimestamp = Undefined
    /\ animationId = 1
    /\ pending = 1
    /\ startActive \in BOOLEAN
    /\ pauseActive \in BOOLEAN
    /\ speedText = <<>>
    /\ \E r \in SliderRanges : sliderMin = r.min /\ sliderMax = r.max
    /\ now = QuantumMs
    /\ lastOp = "construct"
    /\ lastRaw = <<>>
    /\ lastFrame = Fin(QuantumMs)
    /\ prevRot = Rotations
    /\ repeated = FALSE

Init ==
    /\ Constructed
    /\ call = NoCall

\* the host clock advances
Tick ==
    /\ now + QuantumMs <= MaxQuanta * QuantumMs
    /\ now' = now + QuantumMs
    /\ Record("tick", <<>>)
    /\ UNCHANGED call
    /\ UNCHANGED <<prog, sliderMin, sliderMax, lastFrame>>

\* click on the start button
Start ==
    /\ start
    /\ Record("start", <<>>)
    /\ UNCHANGED call
    /\ UNCHANGED <<host, lastFrame>>

\* click on the pause button
Pause ==
    /\ pause
    /\ Record("pause", <<>>)
    /\ UNCHANGED call
    /\ UNCHANGED <<host, lastFrame>>

\* click on the reset button
Reset ==
    /\ reset
    /\ Record("reset", <<>>)
    /\ UNCHANGED call
    /\ UNCHANGED <<host, lastFrame>>

\* input event of the speed slider
SpeedInput ==
    \E raw \in RawValues :
        /\ handleSpeedChange(raw)
        /\ Record("speed", raw)
        /\ UNCHANGED call
        /\ UNCHANGED <<host, lastFrame>>

\* the host runs a pending frame callback with the current time
Frame ==
    /\ pending > 0
    /\ animationId <= MaxFrames
    /\ animate(Fin(now), 1)
    /\ Record("frame", <<>>)
    /\ UNCHANGED call
    /\ UNCHANGED host

Next == Tick \/ Start \/ Pause \/ Reset \/ SpeedInput \/ Frame

Spec == Init /\ [][Next]_vars

----------------------------------------------------------------------------
(* The session with a host that may hand animate any timestamp *)

\* what the frame callback may receive: the current time, nothing, NaN, Infinity
HostTimestamps == {Fin(now), Undefined, NaN, Inf(1)}

\* the host runs a pending frame callback with a timestamp of its choice
HostFrame ==
    \E timestamp \in HostTimestamps :
        /\ pending > 0
        /\ animationId <= MaxFrames
        /\ animate(timestamp, 1)
        /\ Record("frame", <<>>)
        /\ UNCHANGED call
        /\ UNCHANGED host

NextHost == Tick \/ Start \/ Pause \/ Reset \/ SpeedInput \/ HostFrame

\* a page that sets no slider range and marks the pause button
InitHost ==
    /\ Init
    /\ sliderMin = <<>>
    /\ sliderMax = <<>>
    /\ ~startActive
    /\ pauseActive

SpecHost == InitHost /\ [][NextHost]_vars

----------------------------------------------------------------------------
(* Page load *)

\* the ids the constructor looks up, in the order validateElements checks them
ControlIds == <<"startBtn", "pauseBtn", "resetBtn", "speedSlider", "speedValue">>

\* SolarSystem.validateElements: the ids of the page's missing controls
missingElements(page) == SelectSeq(ControlIds, LAMBDA id : id \notin page.controls)

\* new SolarSystem() on the page: thrown with the ids validateElements reports, or
\* the controller as the constructor leaves it
newSolarSystem(page) ==
    IF missingElements(page) # <<>>
    THEN [thrown |-> TRUE, missing |-> missingElements(page),
          planets |-> <<>>, isAnimating |-> FALSE, pending |-> 0]
    ELSE [thrown |-> FALSE, missing |-> <<>>,
          planets |-> initializePlanets(page.elements),
          isAnimating |-> FALSE, pending |-> requested]

\* the DOMContentLoaded handler: the controller, or the message put into
\* #container when the constructor throws and the page has that element
DOMContentLoaded(page) ==
    LET system == newSolarSystem(page)
    IN  [initialized |-> ~system.thrown,
         message |-> system.thrown /\ page.container,
         system |-> system]

----------------------------------------------------------------------------
(* Single operations applied to chosen arguments *)

MaxWidth == 4
MaxEighths == 12
MaxElements == 3

\* arguments as a caller may pass them: numbers, NaN, the infinities, no number
Arguments == {Fin(0), Fin(QuantumMs), NaN, Inf(1), Inf(-1), Undefined}

\* planets to advance: a known and an unknown name, at rest and half way round
AdvancedPlanets ==
    { [Planet(planetName(PlanetElements[i]), PlanetElements[i]) EXCEPT !.rotation = r] :
        i \in {1, 3}, r \in {Fin(0), Fin(FullTurn \div 2)} }

\* whole eighths of a turn, over more than one turn
Angles == { k * (QuarterTurn \div 2) : k \in 0..MaxEighths }

\* .planet elements a page may hold: a known name, an unknown name with the
\* classes the other way round, no name
ElementPool ==
    { [classList |-> <<"planet", "mercury">>, offsetWidth |-> 240],
      [classList |-> <<"pluto", "planet">>, offsetWidth |-> 600],
      [classList |-> <<"planet">>, offsetWidth |-> 460] }

ElementLists == UNION { [1..n -> ElementPool] : n \in 0..MaxElements }

Pages ==
    [controls : SUBSET {ControlIds[i] : i \in DOMAIN ControlIds},
     container : BOOLEAN,
     elements : ElementLists]

NoResult == [k |-> "none"]

Calls ==
    { [fn |-> "updateRotation", done |-> FALSE, result |-> NoResult,
       args |-> [p |-> p, elapsedTime |-> e, speedFactor |-> sf]] :
          p \in AdvancedPlanets, e \in Arguments, sf \in Arguments }
    \cup
    { [fn |-> "updatePosition", done |-> FALSE, result |-> NoResult,
       args |-> [rotation |-> a, offsetWidth |-> w]] :
          a \in Angles, w \in 0..MaxWidth }
    \cup
    { [fn |-> "load", done |-> FALSE, result |-> NoResult, args |-> page] :
          page \in Pages }

\* planet.updateRotation(elapsedTime, speedFactor)
CallUpdateRotation ==
    /\ call.fn = "updateRotation"
    /\ ~call.done
    /\ call' = [call EXCEPT !.done = TRUE,
                  !.result = updateRotation(call.args.p, call.args.elapsedTime,
                                            call.args.speedFactor)]
    /\ UNCHANGED <<prog, host, hist>>

\* planet.updatePosition() of a planet at the given rotation on the given orbit
CallUpdatePosition ==
    /\ call.fn = "updatePosition"
    /\ ~call.done
    /\ call' = [call EXCEPT !.done = TRUE,
                  !.result = updatePosition(
                      [Planet("earth", [offsetWidth |-> call.args.offsetWidth])
                          EXCEPT !.rotation = Fin(call.args.rotation)]).style]
    /\ UNCHANGED <<prog, host, hist>>

\* the page fires DOMContentLoaded
CallLoad ==
    /\ call.fn = "load"
    /\ ~call.done
    /\ call' = [call EXCEPT !.done = TRUE, !.result = DOMContentLoaded(call.args)]
    /\ UNCHANGED <<prog, host, hist>>

InitCalls ==
    /\ Constructed
    /\ sliderMin = <<>>
    /\ sliderMax = <<>>
    /\ ~startActive
    /\ pauseActive
    /\ call \in Calls

NextCalls == CallUpdateRotation \/ CallUpdatePosition \/ CallLoad

SpecCalls == InitCalls /\ [][NextCalls]_vars

----------------------------------------------------------------------------
(* Properties *)

Bodies == DOMAIN planets

\* rotation of body i, in 1/10000 degree
Rot(i) == planets[i].rotation.v

\* every rotation is a finite number, as the comparisons below take it
RotationsFinite == \A i \in Bodies : planets[i].rotation.k = "fin"

\* the step is an animate call made while animating
RunningFrameStep == lastOp' = "frame" /\ isAnimating

\* body i gains exactly (360 / orbitalPeriod) * (e / 1000) * sf in the step,
\* e in ms and sf in tenths, stated without division
Gains(i, e, sf) ==
    /\ planets'[i].rotation.k = "fin"
    /\ (planets'[i].rotation.v - Rot(i)) * planets[i].orbitalPeriod
            = FullCircle * SpeedScale * e * sf

AtInitial == \A i \in Bodies : planets[i].rotation = planets[i].initialRotation

\* C1: every animate call, Running or Paused, stores its timestamp, so a Running
\* frame that follows a stored timestamp advances every body by the time since the
\* frame right before it, not by the time spent paused.
C1_ElapsedIsGapToPrecedingFrame ==
    [][(RunningFrameStep /\ lastTimestamp.k = "fin")
            => \A i \in Bodies : Gains(i, now - lastFrame.v, speedFactor.v)]_vars

\* C2: a rotation changes only in an animate call made while animating and in
\* reset; start, pause, a speed input, a paused frame and the clock leave every
\* rotation as it is.
C2_AngleChangesOnlyByRunningFrameOrReset ==
    [][(Rotations' # Rotations) => (RunningFrameStep \/ lastOp' = "reset")]_vars

C2_Witness ==
    /\ lastOp = "frame"
    /\ ~isAnimating
    /\ lastTimestamp.k = "fin"
    /\ now > lastTimestamp.v
    /\ Rot(1) > 0
    /\ Rotations = prevRot

\* C3: the controller starts paused, start leaves it running, pause and reset
\* leave it paused, and a frame, a speed input or the clock never change the play
\* state; so the play state is that of the last of start / pause / reset.
C3_PlayStateFollowsLastControl ==
    /\ [](lastOp = "construct" => ~isAnimating)
    /\ [][/\ lastOp' = "start" => isAnimating'
          /\ lastOp' \in {"pause", "reset"} => ~isAnimating'
          /\ lastOp' \in {"frame", "speed", "tick"} => isAnimating' = isAnimating]_vars

\* start after a pause or reset that followed an earlier start: a timestamp was
\* stored by a Running frame and a later frame, made while paused, did not store
C3_Witness ==
    /\ lastOp = "start"
    /\ isAnimating
    /\ lastTimestamp.k = "fin"
    /\ lastFrame.v > lastTimestamp.v

\* C4: right after reset every rotation equals the initial rotation, whatever was
\* advanced before; no step changes an initial rotation; and the rotations stay at
\* the initial rotation until the next animate call made while animating.
C4_ResetRestoresInitialAngle ==
    /\ [](lastOp = "reset" => AtInitial)
    /\ [][\A i \in Bodies : planets'[i].initialRotation = planets[i].initialRotation]_vars
    /\ [][(AtInitial /\ ~RunningFrameStep) => AtInitial']_vars

C4_Witness ==
    /\ lastOp = "reset"
    /\ prevRot[1].v > 0
    /\ prevRot[2].v > 0
    /\ AtInitial

\* the configured bounds of the speed, in tenths: the slider's min and max where
\* the page sets them, 0.1 and 5 where it does not
MinSpeed == IF sliderMin = <<>> THEN 1 ELSE 5
MaxSpeed == IF sliderMax = <<>> THEN 50 ELSE 30

\* slider texts that denote a finite number, and the number in tenths
FiniteRaw == { <<"1", "0", "0">>, <<"-", "3">>, <<"2">> }
RawNumber(raw) ==
    CASE raw = <<"1", "0", "0">> -> 1000
      [] raw = <<"-", "3">> -> -30
      [] raw = <<"2">> -> 20

\* slider texts that denote no finite number
NonFiniteRaw == RawValues \ FiniteRaw

Clamped(n) == IF n > MaxSpeed THEN MaxSpeed ELSE IF n < MinSpeed THEN MinSpeed ELSE n

C6_NonFiniteSpeedIgnored ==
    [][(lastOp' = "speed" /\ lastRaw' \in NonFiniteRaw) => UNCHANGED prog]_vars

\* C7: an animate call made while animating adds nothing when no timestamp is
\* stored, and otherwise adds (360 / orbitalPeriod) * (e / 1000) * speedFactor to
\* every rotation, e the time since the stored timestamp and speedFactor the value
\* at that frame; with period 10 and speed 2, frames at 1000 and 1500 add 36 degrees.
C7_RunningFrameAdvance ==
    [][RunningFrameStep =>
        /\ \A i \in Bodies :
             IF lastTimestamp.k = "undef"
             THEN planets'[i].rotation = planets[i].rotation
             ELSE Gains(i, now - lastTimestamp.v, speedFactor.v)
        /\ \A i \in Bodies :
             (/\ planets[i].orbitalPeriod = 100
              /\ speedFactor = Fin(20)
              /\ lastTimestamp = Fin(1000)
              /\ now = 1500)
             => planets'[i].rotation.v - Rot(i) = 36 * SpeedScale * MsPerSec]_vars

C7_Witness ==
    /\ lastOp = "frame"
    /\ isAnimating
    /\ speedFactor = Fin(20)
    /\ lastFrame = Fin(1500)
    /\ planets[2].orbitalPeriod = 100
    /\ Rot(2) - prevRot[2].v = 36 * SpeedScale * MsPerSec
    /\ Rot(1) - prevRot[1].v = 150 * SpeedScale * MsPerSec

\* C8: exactly one frame callback is pending in every state, and every animate
\* call, Running or Paused, asks for the next frame.
C8_OneFrameCallbackPending ==
    /\ [](pending = 1)
    /\ [][lastOp' = "frame" => animationId' = animationId + 1]_vars

C8_Witness ==
    /\ lastOp = "frame"
    /\ ~isAnimating
    /\ animationId = MaxFrames + 1
    /\ pending = 1
    /\ Rot(1) > 0

\* C9: with timestamps that never decrease and a positive speed factor, no step
\* other than reset lowers a rotation, and an animate call made while animating with
\* no time elapsed leaves every rotation as it is.
C9_AngleNeverDecreases ==
    /\ [][lastOp' # "reset" =>
            \A i \in Bodies :
                planets'[i].rotation.k = "fin" /\ planets'[i].rotation.v >= Rot(i)]_vars
    /\ [][(RunningFrameStep /\ lastTimestamp = Fin(now)) => Rotations' = Rotations]_vars

C9_Witness ==
    /\ lastOp = "frame"
    /\ isAnimating
    /\ prevRot[1].v > 0
    /\ Rot(1) > prevRot[1].v
    /\ speedFactor.v > 0

\* the fields the idempotence of start and pause is about
playFields == <<isAnimating, speedFactor, lastTimestamp, Rotations, pending>>

\* C10: start in the Running state and pause in the Paused state change neither
\* the play state, the speed factor, the stored timestamp, a rotation nor the
\* pending callbacks, and the second of two consecutive starts or pauses changes
\* no field of the controller at all.
C10_StartPauseIdempotent ==
    /\ [][(lastOp' = "start" /\ isAnimating) => UNCHANGED playFields]_vars
    /\ [][(lastOp' = "pause" /\ ~isAnimating) => UNCHANGED playFields]_vars
    /\ [][repeated' => UNCHANGED prog]_vars

C10_Witness ==
    /\ repeated
    /\ lastOp = "start"
    /\ isAnimating
    /\ Rot(1) > 0
    /\ lastTimestamp.k = "fin"

\* the position published for body i follows from its rotation
Published(i) ==
    planets[i].style = positionOnOrbit(planets[i].rotation.v, planets[i].offsetWidth)

\* C13: every animate call made while animating and every reset (though paused)
\* publishes, for every body, the position of its rotation after the step; an
\* animate call made while paused publishes nothing.
C13_PositionsFollowAngles ==
    /\ [][(RunningFrameStep \/ lastOp' = "reset") => \A i \in Bodies : Published(i)']_vars
    /\ [][(lastOp' = "frame" /\ ~isAnimating)
            => \A i \in Bodies : planets'[i].style = planets[i].style]_vars

\* reset after an advance puts the body back at the top of its orbit
C13_Witness ==
    /\ lastOp = "reset"
    /\ ~isAnimating
    /\ prevRot[2].v > 0
    /\ planets[2].style.k = "pos"
    /\ planets[2].style.left = [k |-> "px", v |-> planets[2].offsetWidth, fn |-> "cos", deg |-> 0]
    /\ planets[2].style.top = [k |-> "px", v |-> 0, fn |-> "sin", deg |-> 0]

\* C17: all bodies advance in lockstep: (rotation - initialRotation) * orbitalPeriod
\* is the same for every body in every state.
C17_BodiesInLockstep ==
    /\ RotationsFinite
    /\ \A i, j \in Bodies :
          (Rot(i) - planets[i].initialRotation.v) * planets[i].orbitalPeriod
            = (Rot(j) - planets[j].initialRotation.v) * planets[j].orbitalPeriod

C17_Witness ==
    /\ Rot(1) > 0
    /\ Rot(2) > 0
    /\ Rot(1) # Rot(2)
    /\ planets[1].orbitalPeriod # planets[2].orbitalPeriod

\* C18: start, pause and reset leave the start button marked active exactly when
\* the controller is animating and the pause button exactly when it is not; a
\* frame, a speed input and the clock change neither mark.
C18_ButtonSignalsMatchPlayState ==
    /\ [][lastOp' \in {"start", "pause", "reset"}
            => (startActive' = isAnimating' /\ pauseActive' = ~isAnimating')]_vars
    /\ [][lastOp' \in {"frame", "speed", "tick"}
            => UNCHANGED <<startActive, pauseActive>>]_vars

C18_Witness ==
    /\ lastOp = "pause"
    /\ pauseActive
    /\ ~startActive
    /\ ~isAnimating
    /\ lastTimestamp.k = "fin"

\* an applied call of fn
Done(fn) == call.fn = fn /\ call.done

\* C11: updateRotation leaves the rotation as it was whenever the elapsed time or
\* the speed factor is not a finite number: NaN, an infinity or no number at all.
C11_AdvanceIgnoresNonFinite ==
    (/\ Done("updateRotation")
     /\ (call.args.elapsedTime.k # "fin" \/ call.args.speedFactor.k # "fin"))
    => call.result.rotation = call.args.p.rotation

\* the point (x, y) in half pixels, as updatePosition publishes it
Point(x, y) ==
    [k |-> "pos",
     left |-> [k |-> "px", v |-> x, fn |-> "cos", deg |-> 0],
     top |-> [k |-> "px", v |-> y, fn |-> "sin", deg |-> 0]]

\* the published position depends on the angle only through its remainder in one
\* turn: away from the quarter turns it is the term of that remainder
SamePointEveryTurn ==
    LET a == call.args.rotation % FullTurn
        w == call.args.offsetWidth
        deg == (a + 3 * QuarterTurn) % FullTurn
    IN  a % QuarterTurn # 0 =>
            call.result = [k |-> "pos",
                           left |-> [k |-> "term", v |-> w, fn |-> "cos", deg |-> deg],
                           top |-> [k |-> "term", v |-> w, fn |-> "sin", deg |-> deg]]

\* C16: on an orbit of radius r >= 0 (width 2r) updatePosition puts the body at
\* (r, 0) for rotation 0, (2r, r) for 90, (r, 2r) for 180 and (0, r) for 270
\* degrees, and rotations that differ by a multiple of 360 degrees give the same
\* point (in exact arithmetic, coordinates in half pixels).
C16_CardinalPointsAndPeriod ==
    Done("updatePosition") =>
        LET a == call.args.rotation % FullTurn
            w == call.args.offsetWidth
        IN  /\ a = 0 => call.result = Point(w, 0)
            /\ a = QuarterTurn => call.result = Point(2 * w, w)
            /\ a = 2 * QuarterTurn => call.result = Point(w, 2 * w)
            /\ a = 3 * QuarterTurn => call.result = Point(0, w)
            /\ SamePointEveryTurn

\* 450 degrees on the widest orbit: the point of 90 degrees
C16_Witness ==
    /\ Done("updatePosition")
    /\ call.args.rotation = FullTurn + QuarterTurn
    /\ call.args.offsetWidth = MaxWidth
    /\ call.result = Point(2 * MaxWidth, MaxWidth)

\* C14: the page load is given up, with the message shown in #container, only for
\* a page that has none of the five controls; a page that lacks some but not all
\* of them gets its controller, with the frame loop started.
C14_AbortOnlyWithoutAnyControl ==
    Done("load") =>
        /\ call.result.initialized <=> call.args.controls # {}
        /\ call.result.initialized => call.result.system.pending = 1
        /\ (~call.result.initialized /\ call.args.container) => call.result.message

\* the elements of the list that carry a class other than 'planet'
Named(elements) ==
    SelectSeq(elements, LAMBDA e : \E i \in DOMAIN e.classList : e.classList[i] # "planet")

\* the class of the element that is not 'planet'
NameOf(e) == CHOOSE c \in {e.classList[i] : i \in DOMAIN e.classList} : c # "planet"

\* the period of the configuration table in tenths, 10 for a name it lacks
PeriodOf(name) ==
    CASE name = "mercury" -> 24
      [] name = "earth" -> 100
      [] OTHER -> 100

\* C15: on a page with all controls the load never fails, whatever .planet
\* elements it holds: the planets are those of the elements that have a name, in
\* the order of the page, an element without a name is passed over, and a planet
\* whose name the configuration table lacks has orbital period 10.
C15_BodiesCreatedInOrder ==
    (Done("load") /\ missingElements(call.args) = <<>>) =>
        LET ps == call.result.system.planets
            named == Named(call.args.elements)
        IN  /\ call.result.initialized
            /\ ~call.result.message
            /\ Len(ps) = Len(named)
            /\ \A i \in DOMAIN ps :
                  /\ ps[i].name = NameOf(named[i])
                  /\ ps[i].offsetWidth = named[i].offsetWidth
                  /\ ps[i].orbitalPeriod = PeriodOf(ps[i].name)
                  /\ ps[i].name \notin PlanetNames => ps[i].orbitalPeriod = 100

\* an element without a name between an unknown and a known planet
C15_Witness ==
    /\ Done("load")
    /\ call.result.initialized
    /\ Len(call.args.elements) = 3
    /\ Len(call.args.elements[2].classList) = 1
    /\ Len(call.result.system.planets) = 2
    /\ call.result.system.planets[1].name = "pluto"
    /\ call.result.system.planets[1].orbitalPeriod = 100
    /\ call.result.system.planets[2].name = "mercury"

\* C12: every body's rotation is a finite number in every state, whatever
\* timestamp (missing, NaN, infinite) and whatever slider text the host supplies.
C12_AnglesAlwaysFinite ==
    \A i \in Bodies : planets[i].rotation.k = "fin"

====
